---- MODULE Spec2Model ----
(***************************************************************************)
(* Model of mocktail: the seeded mock-data Generator                       *)
(* (internal/generator/generator.go), the mock HTTP server that dispatches *)
(* requests to it (internal/mock/server.go) and the generate command       *)
(* (cmd/mocktail/generate.go).                                             *)
(*                                                                         *)
(* Three specifications are given.                                         *)
(*   SpecGen : two independently constructed Generators with the same seed *)
(*             are driven through the same sequence of schema nodes.       *)
(*   Spec    : one Server, its single Generator, and concurrently handled  *)
(*             requests.                                                   *)
(*   SpecCmd : two runs of the generate command with the same flags.       *)
(***************************************************************************)
EXTENDS Integers, Sequences, FiniteSets, TLC

VARIABLES
    gens,      \* SpecGen: gens[i] is the random source of Generator i
    calls,     \* SpecGen: calls[i] is the number of calls made on Generator i
    last,      \* SpecGen: last[i] is the latest call made on Generator i
    clock,     \* wall clock read by time.Now(), in hours
    schema,    \* Spec: the parser.Schema the Server holds
    generator, \* Spec: the random source of the Server's single Generator
    pc,        \* Spec: pc[h] is the position of request handler h
    req,       \* Spec: req[h] is the request handler h serves
    ep,        \* Spec: ep[h] is the endpoint handlePath matched for h
    snap,      \* Spec: snap[h] is the random source as h read it on entry
    sent,      \* Spec: the latest exchange: a request and the response written to it
    runs,      \* SpecCmd: runs[r] is run r of the generate command
    server,    \* SpecLife: the Server's http.Server (the field s.server)
    mux,       \* SpecLife: the patterns registered on the request multiplexer
    starting,  \* SpecLife: the position of the thread running Start
    stopping   \* SpecLife: the position and result of the thread running Stop

vars == <<gens, calls, last, clock, schema, generator, pc, req, ep, snap, sent, runs,
          server, mux, starting, stopping>>

genVars == <<gens, calls, last>>
srvVars == <<schema, generator, pc, req, ep, snap, sent>>
cmdVars == <<runs>>
lifeVars == <<server, mux, starting, stopping>>

----------------------------------------------------------------------------
(* Bounds of the model *)

MaxSeed == 1        \* seeds are 0..MaxSeed
MaxClock == 1       \* the clock runs from 0 to MaxClock
MaxCalls == 2       \* calls made on each Generator in SpecGen
MaxOrd == 1         \* map-iteration oracles are 0..MaxOrd
NumRequests == 2    \* requests handled (concurrently) in Spec
MaxCount == 2       \* the --count flag of the generate command is 0..MaxCount
IntBits == 8        \* width at which int64 arithmetic is modelled
StackFrames == 4    \* nested GenerateFromSchema calls the goroutine stack holds

Seeds == 0..MaxSeed
Ords == 0..MaxOrd

----------------------------------------------------------------------------
(* JSON-like values (Go's interface{} results), tagged by kind *)

Nil == [k |-> "nil", v |-> 0]
StrV(s) == [k |-> "str", v |-> s]
IntV(n) == [k |-> "int", v |-> n]
NumV(n) == [k |-> "num", v |-> n]
BoolV(b) == [k |-> "bool", v |-> b]
ArrV(s) == [k |-> "arr", v |-> s]
ObjV(f) == [k |-> "obj", v |-> f]

EmptyMap == <<>>

----------------------------------------------------------------------------
(* Schema nodes (openapi3.Schema).  Bounds are float64 in the source; they *)
(* are held in halves here so that a fractional bound can be written.      *)

None == [set |-> FALSE, h |-> 0]
Some(halves) == [set |-> TRUE, h |-> halves]
Whole(n) == Some(2 * n)

NilRef == "nil"

BaseSchema ==
    [Type |-> "", Format |-> "", Enum |-> <<>>, Min |-> None, Max |-> None,
     Items |-> NilRef, MinItems |-> 0, MaxItems |-> None,
     Properties |-> EmptyMap]

TypeSchema(t) == [BaseSchema EXCEPT !.Type = t]
StringSchema(f) == [BaseSchema EXCEPT !.Type = "string", !.Format = f]
IntegerSchema(lo, hi) == [BaseSchema EXCEPT !.Type = "integer", !.Min = lo, !.Max = hi]
NumberSchema(lo, hi) == [BaseSchema EXCEPT !.Type = "number", !.Min = lo, !.Max = hi]
ArraySchema(items, lo, hi) ==
    [BaseSchema EXCEPT !.Type = "array", !.Items = items, !.MinItems = lo, !.MaxItems = hi]
ObjectSchema(props) == [BaseSchema EXCEPT !.Type = "object", !.Properties = props]

Schemas ==
       "word"       :> StringSchema("")
    @@ "uuid"       :> StringSchema("uuid")
    @@ "email"      :> StringSchema("email")
    @@ "uri"        :> StringSchema("uri")
    @@ "date"       :> StringSchema("date")
    @@ "datetime"   :> StringSchema("date-time")
    @@ "enum"       :> [StringSchema("") EXCEPT !.Enum = <<StrV("dog"), StrV("cat"), StrV("bird")>>]
    @@ "enumMixed"  :> [StringSchema("uri") EXCEPT !.Enum = <<StrV("dog"), IntV(7)>>]
    @@ "int"        :> IntegerSchema(None, None)
    @@ "int1020"    :> IntegerSchema(Whole(10), Whole(20))
    @@ "int1010"    :> IntegerSchema(Whole(10), Whole(10))
    @@ "intMinOnly" :> IntegerSchema(Whole(5), None)
    @@ "intMaxOnly" :> IntegerSchema(None, Whole(-5))
    @@ "intWide"    :> IntegerSchema(Whole(-(2^(IntBits - 2))), Whole(2^(IntBits - 2)))
    @@ "num"        :> NumberSchema(None, None)
    @@ "bool"       :> TypeSchema("boolean")
    @@ "arrInt"     :> ArraySchema("int1020", 1, Some(2))
    @@ "arrNoItems" :> ArraySchema(NilRef, 0, None)
    @@ "arrNoItemsBounded" :> ArraySchema(NilRef, 2, Some(3))
    @@ "arrMinOnly" :> ArraySchema("bool", 6, None)
    @@ "arrMaxOnly" :> ArraySchema("bool", 0, Some(1))
    @@ "widget"     :> ObjectSchema("id" :> "uuid" @@ "name" :> "word")
    @@ "widgets"    :> ArraySchema("widget", 1, Some(1))
    @@ "empty"      :> ObjectSchema(EmptyMap)
    @@ "untyped"    :> [BaseSchema EXCEPT !.Properties = ("name" :> "word" @@ "gone" :> NilRef)]
    @@ "file"       :> TypeSchema("file")
    @@ "objFile"    :> ObjectSchema("name" :> "word" @@ "blob" :> "file")
    @@ "files"      :> ArraySchema("objFile", 2, Some(3))
    @@ "report"     :> ObjectSchema("id" :> "int1020" @@ "next" :> "files")
    @@ "tree"       :> ObjectSchema("name" :> "word" @@ "next" :> "trees")
    @@ "trees"      :> ArraySchema("tree", 1, Some(1))

SchemaIds == DOMAIN Schemas

\* every property name, in lexicographic order
PropNames == <<"blob", "gone", "id", "name", "next">>

----------------------------------------------------------------------------
(* The random source (math/rand.Rand behind Generator.rng): a              *)
(* deterministic word stream fixed by the seed.                            *)

NextWord(w) == (25173 * w + 13849) % 65536

NewGenerator(seed) == seed % 65536

\* rng.Intn(n): advance the source, reduce the word to [0, n)
Intn(st, n) ==
    LET w == NextWord(st.rng)
    IN [r |-> (w \div 4) % n, st |-> [st EXCEPT !.rng = w]]

\* rng.Uint32(): 32 bits, held as two 16-bit words
Uint32(st) ==
    LET hi == NextWord(st.rng)
        lo == NextWord(hi)
    IN [hi |-> hi, lo |-> lo, st |-> [st EXCEPT !.rng = lo]]

\* rng.Float64(): a fraction word/65536 in [0, 1)
Float64(st) ==
    LET w == NextWord(st.rng)
    IN [r |-> w, st |-> [st EXCEPT !.rng = w]]

----------------------------------------------------------------------------
(* Formatting *)

HexDigits == <<"0", "1", "2", "3", "4", "5", "6", "7", "8", "9", "a", "b", "c", "d", "e", "f">>

\* fmt's %02x of every byte
HexByte == [b \in 0..255 |-> HexDigits[(b \div 16) + 1] \o HexDigits[(b % 16) + 1]]

\* fmt's %04x of a 16-bit word
Hex4(w) == HexByte[w \div 256] \o HexByte[w % 256]

\* x | bit for a 16-bit x and a single bit
BitOr16(x, bit) == IF (x \div bit) % 2 = 1 THEN x ELSE x + bit

\* time.Format(time.RFC3339) and time.Format("2006-01-02") of an hour count
FormatRFC3339(t) == "day" \o ToString(t \div 24) \o "T" \o ToString(t % 24) \o ":00:00Z"
FormatDate(t) == "day" \o ToString(t \div 24)

\* "now" in hours; late enough that a year can be subtracted
Now(c) == 8760 + c

----------------------------------------------------------------------------
(* int64 arithmetic at IntBits bits *)

Wrap(x) == ((x + 2^(IntBits - 1)) % 2^IntBits) - 2^(IntBits - 1)

\* int64(f) for a float64 f given in halves: truncation toward zero
TruncInt64(halves) == IF halves >= 0 THEN halves \div 2 ELSE -((-halves) \div 2)

----------------------------------------------------------------------------
(* The Generator.  Every operator takes the generator state st =           *)
(* [rng, ord, depth]: rng is the random source, ord the oracle that fixes  *)
(* the order in which Go ranges over each map it meets, depth the number   *)
(* of GenerateFromSchema frames on the stack.  now is time.Now().          *)
(* A call that does not return (a panic of math/rand, or the runtime's     *)
(* fatal stack overflow) is reported as the err "panic" or "stack          *)
(* overflow" with no value; every caller up the stack is unwound by it.    *)

Result(val, err, st) == [val |-> val, err |-> err, st |-> st]

\* generateString: enum first, then the format
generateString(s, st, now) ==
    LET pick == Intn(st, Len(s.Enum))
        enumHit == Len(s.Enum) > 0 /\ s.Enum[pick.r + 1].k = "str"
        st1 == IF Len(s.Enum) > 0 THEN pick.st ELSE st
    IN IF enumHit THEN [val |-> s.Enum[pick.r + 1].v, st |-> pick.st]
       ELSE CASE s.Format = "date-time" ->
                   LET d == Intn(st1, 365 * 24)
                   IN [val |-> FormatRFC3339(now - d.r), st |-> d.st]
              [] s.Format = "date" ->
                   LET d == Intn(st1, 365)
                   IN [val |-> FormatDate(now - 24 * d.r), st |-> d.st]
              [] s.Format = "email" ->
                   LET d == Intn(st1, 1000)
                   IN [val |-> "user" \o ToString(d.r) \o "@example.com", st |-> d.st]
              [] s.Format = "uuid" ->
                   LET u1 == Uint32(st1)
                       u2 == Uint32(u1.st)
                       u3 == Uint32(u2.st)
                       u4 == Uint32(u3.st)
                       u5 == Uint32(u4.st)
                       u6 == Uint32(u5.st)
                   IN [val |-> Hex4(u1.hi) \o Hex4(u1.lo) \o "-"
                               \o Hex4(u2.lo) \o "-"
                               \o Hex4(BitOr16(u3.lo, 16384)) \o "-"
                               \o Hex4(BitOr16(u4.lo, 32768)) \o "-"
                               \o Hex4(u5.hi) \o Hex4(u5.lo) \o Hex4(u6.hi),
                       st |-> u6.st]
              [] s.Format = "uri" ->
                   LET d == Intn(st1, 1000)
                   IN [val |-> "https://example.com/resource/" \o ToString(d.r), st |-> d.st]
              [] OTHER ->
                   LET words == <<"alpha", "beta", "gamma", "delta", "epsilon", "zeta", "theta">>
                       d == Intn(st1, Len(words))
                   IN [val |-> words[d.r + 1], st |-> d.st]

\* generateInteger: min/max default to 0 and 100; rng.Int63n panics on n <= 0
generateInteger_Draws(s, st) ==
    LET min == IF s.Min.set THEN Wrap(TruncInt64(s.Min.h)) ELSE 0
        max == IF s.Max.set THEN Wrap(TruncInt64(s.Max.h)) ELSE 100
        n == Wrap(max - min + 1)
        d == Intn(st, IF n > 0 THEN n ELSE 1)
    IN IF n <= 0 THEN [val |-> 0, panic |-> TRUE, st |-> st]
       ELSE [val |-> Wrap(min + d.r), panic |-> FALSE, st |-> d.st]

generateInteger(s, st) ==
    LET min == IF s.Min.set THEN Wrap(TruncInt64(s.Min.h)) ELSE 0
        max == IF s.Max.set THEN Wrap(TruncInt64(s.Max.h)) ELSE 100
        n == Wrap(max - min + 1)
        d == Intn(st, IF n > 0 THEN n ELSE 1)
    IN IF max <= min THEN [val |-> min, panic |-> FALSE, st |-> st]
       ELSE IF n <= 0 THEN [val |-> 0, panic |-> TRUE, st |-> st]
       ELSE [val |-> Wrap(min + d.r), panic |-> FALSE, st |-> d.st]

\* generateNumber: the value is held as a numerator over 2 * 65536
generateNumber(s, st) ==
    LET min == IF s.Min.set THEN s.Min.h ELSE 0
        max == IF s.Max.set THEN s.Max.h ELSE 200
        f == Float64(st)
    IN IF max <= min THEN [val |-> min * 65536, st |-> st]
       ELSE [val |-> min * 65536 + f.r * (max - min), st |-> f.st]

generateBoolean(st) ==
    LET d == Intn(st, 2) IN [val |-> d.r = 1, st |-> d.st]

\* the order in which a range statement visits the keys of a map: any
\* permutation; the oracle ord selects it and is consumed doing so
RECURSIVE MapOrder(_, _)
MapOrder(keys, ord) ==
    IF keys = <<>> THEN [order |-> <<>>, ord |-> ord]
    ELSE LET n == Len(keys)
             i == (ord % n) + 1
             rest == MapOrder(SubSeq(keys, 1, i - 1) \o SubSeq(keys, i + 1, n), ord \div n)
         IN [order |-> <<keys[i]>> \o rest.order, ord |-> rest.ord]

SortedKeys(f) == SelectSeq(PropNames, LAMBDA name : name \in DOMAIN f)

RECURSIVE GenerateFromSchema(_, _, _)
RECURSIVE arrayItems(_, _, _, _, _)
RECURSIVE objectProps(_, _, _, _, _, _)

\* the loop of generateArray: elements i..length of the result
arrayItems_Partial(s, length, acc, st, now) ==
    IF Len(acc) = length THEN Result(ArrV(acc), "", st)
    ELSE LET item == GenerateFromSchema(s.Items, st, now)
         IN IF item.err # "" THEN Result(ArrV(acc), item.err, item.st)
            ELSE arrayItems(s, length, Append(acc, item.val), item.st, now)

\* the loop of generateArray over the items
arrayItems(s, length, acc, st, now) ==
    IF Len(acc) = length THEN Result(ArrV(acc), "", st)
    ELSE LET item == GenerateFromSchema(s.Items, st, now)
         IN IF item.err # "" THEN Result(Nil, item.err, item.st)
            ELSE arrayItems(s, length, Append(acc, item.val), item.st, now)

generateArray_LengthFirst(s, st, now) ==
    LET minItems == IF s.MinItems > 0 THEN s.MinItems ELSE 2
        maxItems == IF s.MaxItems.set /\ s.MaxItems.h > 0 THEN s.MaxItems.h ELSE 5
        d == Intn(st, IF maxItems > minItems THEN maxItems - minItems + 1 ELSE 1)
        st1 == IF maxItems > minItems THEN d.st ELSE st
    IN IF s.Items = NilRef THEN Result(ArrV(<<>>), "", st1)
       ELSE IF maxItems > minItems
            THEN arrayItems(s, minItems + d.r, <<>>, d.st, now)
            ELSE arrayItems(s, minItems, <<>>, st, now)

generateArray(s, st, now) ==
    LET minItems == IF s.MinItems > 0 THEN s.MinItems ELSE 2
        maxItems == IF s.MaxItems.set /\ s.MaxItems.h > 0 THEN s.MaxItems.h ELSE 5
        d == Intn(st, IF maxItems > minItems THEN maxItems - minItems + 1 ELSE 1)
    IN IF s.Items = NilRef THEN Result(ArrV(<<>>), "", st)
       ELSE IF maxItems > minItems
            THEN arrayItems(s, minItems + d.r, <<>>, d.st, now)
            ELSE arrayItems(s, minItems, <<>>, st, now)

\* the loop of generateObject over the keys in the order the range yields
objectProps(s, order, i, acc, st, now) ==
    IF i > Len(order) THEN Result(ObjV(acc), "", st)
    ELSE IF s.Properties[order[i]] = NilRef
         THEN objectProps(s, order, i + 1, acc, st, now)
         ELSE LET value == GenerateFromSchema(s.Properties[order[i]], st, now)
              IN IF value.err # "" THEN Result(Nil, value.err, value.st)
                 ELSE objectProps(s, order, i + 1, acc @@ (order[i] :> value.val),
                                  value.st, now)

generateObject(s, st, now) ==
    LET range == MapOrder(SortedKeys(s.Properties), st.ord)
    IN IF DOMAIN s.Properties = {} THEN Result(ObjV(EmptyMap), "", st)
       ELSE objectProps(s, range.order, 1, EmptyMap, [st EXCEPT !.ord = range.ord], now)

\* the return of a GenerateFromSchema frame: the result r, the frame popped
return(r, depth) == Result(r.val, r.err, [r.st EXCEPT !.depth = depth])

\* the outcome is a crash of the calling goroutine, not a return
Crashed(err) == err \in {"panic", "stack overflow"}

\* the body of GenerateFromSchema, st being the state inside its frame
dispatch(id, st, now) ==
    IF id = NilRef THEN Result(Nil, "schema is nil", st)
    ELSE LET s == Schemas[id]
         IN CASE s.Type = "" -> generateObject(s, st, now)
              [] s.Type = "string" ->
                   LET r == generateString(s, st, now) IN Result(StrV(r.val), "", r.st)
              [] s.Type = "integer" ->
                   LET r == generateInteger(s, st)
                   IN Result(IntV(r.val), IF r.panic THEN "panic" ELSE "", r.st)
              [] s.Type = "number" ->
                   LET r == generateNumber(s, st) IN Result(NumV(r.val), "", r.st)
              [] s.Type = "boolean" ->
                   LET r == generateBoolean(st) IN Result(BoolV(r.val), "", r.st)
              [] s.Type = "array" -> generateArray(s, st, now)
              [] s.Type = "object" -> generateObject(s, st, now)
              [] OTHER -> Result(Nil, "unsupported schema type", st)

\* GenerateFromSchema: a frame is pushed for the call and popped on return;
\* the code sets no limit of its own on the nesting, the stack does
GenerateFromSchema(id, st, now) ==
    IF st.depth >= StackFrames THEN Result(Nil, "stack overflow", st)
    ELSE return(dispatch(id, [st EXCEPT !.depth = @ + 1], now), st.depth)

----------------------------------------------------------------------------
(* SpecGen: two Generators built from one seed, called in the same         *)
(* sequence (the shape of TestDeterministicGeneration).                    *)

Generators == 1..2

\* the order in which generateObject ranges over the properties of node id
\* under the oracle ord; empty for a node that is not generated as an object
VisitOrder(id, ord) ==
    IF id # NilRef /\ Schemas[id].Type \in {"", "object"}
    THEN MapOrder(SortedKeys(Schemas[id].Properties), ord).order
    ELSE <<>>

\* a call as its caller observes it: the node, the outcome, and the order
\* in which the node's properties were visited
Call(id, r, ord) ==
    [node |-> id, val |-> r.val, err |-> r.err, order |-> VisitOrder(id, ord)]

NoCall == [node |-> NilRef, val |-> Nil, err |-> "", order |-> <<>>]

\* the first Generator makes its next call, on any node
GenCall1(id, ord) ==
    /\ calls[1] = calls[2]
    /\ calls[1] < MaxCalls
    /\ LET r == GenerateFromSchema(id, [rng |-> gens[1], ord |-> ord, depth |-> 0], Now(clock))
       IN /\ gens' = [gens EXCEPT ![1] = r.st.rng]
          /\ last' = [last EXCEPT ![1] = Call(id, r, ord)]
    /\ calls' = [calls EXCEPT ![1] = @ + 1]
    /\ UNCHANGED <<clock, srvVars, cmdVars, lifeVars>>

\* the second Generator repeats the call the first one made
GenCall2(ord) ==
    /\ calls[2] < calls[1]
    /\ LET id == last[1].node
           r == GenerateFromSchema(id, [rng |-> gens[2], ord |-> ord, depth |-> 0], Now(clock))
       IN /\ gens' = [gens EXCEPT ![2] = r.st.rng]
          /\ last' = [last EXCEPT ![2] = Call(id, r, ord)]
    /\ calls' = [calls EXCEPT ![2] = @ + 1]
    /\ UNCHANGED <<clock, srvVars, cmdVars, lifeVars>>

\* time passes
Tick ==
    /\ clock < MaxClock
    /\ clock' = clock + 1
    /\ UNCHANGED <<genVars, srvVars, cmdVars, lifeVars>>

----------------------------------------------------------------------------
(* The OpenAPI document (openapi3.T) and the parser.Schema built from it   *)

NoContent == [Content |-> "none", Schema |-> NilRef]
TextContent == [Content |-> "text", Schema |-> NilRef]
JSONContent(id) == [Content |-> "json", Schema |-> id]

Operation(responses) == [RequestBody |-> NoContent, Responses |-> responses]
OperationWithBody(body, responses) == [RequestBody |-> body, Responses |-> responses]

Doc ==
       "/items" :>
          (   "GET"    :> Operation("200" :> JSONContent("widget"))
           @@ "POST"   :> OperationWithBody(JSONContent("word"),
                                            "201" :> JSONContent("widget")))
    @@ "/data" :>
          (   "GET"    :> Operation("200" :> JSONContent("objFile"))
           @@ "POST"   :> Operation("200" :> JSONContent("email")
                                    @@ "201" :> JSONContent("widget"))
           @@ "PUT"    :> OperationWithBody(JSONContent("objFile"),
                                            "200" :> JSONContent("widget"))
           @@ "PATCH"  :> Operation("201" :> JSONContent("intWide")))
    @@ "/items/{id}" :>
          (   "GET"    :> Operation("200" :> JSONContent("widget"))
           @@ "PUT"    :> Operation("200" :> NoContent)
           @@ "PATCH"  :> Operation("202" :> JSONContent("widget"))
           @@ "DELETE" :> Operation("200" :> JSONContent("widget")))
    @@ "/pets" :>
          (   "GET"    :> Operation("200" :> JSONContent("widgets"))
           @@ "POST"   :> OperationWithBody(JSONContent("word"),
                                            "201" :> JSONContent("objFile"))
           @@ "PUT"    :> Operation("200" :> TextContent)
           @@ "DELETE" :> Operation("204" :> NoContent))

\* the methods of openapi3.PathItem.Operations(), in a fixed order
Methods == <<"DELETE", "GET", "PATCH", "POST", "PUT">>

\* the methods a client may send: any case
RequestMethods == {"GET", "POST", "PUT", "PATCH", "DELETE", "delete"}

\* strings.ToUpper on the method names in use
Upper(m) == IF m = "delete" THEN "DELETE" ELSE m

\* strings.EqualFold
EqualFold(a, b) == Upper(a) = Upper(b)

\* strings.Contains(path, "{")
ContainsBrace(path) == path \in {"/items/{id}"}

Endpoint(method, path) == [Method |-> method, Path |-> path]

NoEndpoint == Endpoint("", "")

\* OpenAPIParser.Parse: one Endpoint per operation of each path
Parse(doc) ==
    [Paths |-> [path \in DOMAIN doc |->
                  LET ms == SelectSeq(Methods, LAMBDA m : m \in DOMAIN doc[path])
                  IN [i \in 1..Len(ms) |-> Endpoint(ms[i], path)]],
     Raw |-> "openapi3.T"]

----------------------------------------------------------------------------
(* The mock server *)

Handlers == 1..NumRequests

\* GenerateResponse: the declared response for statusCode, generated
GenerateResponse(operation, statusCode, st, now) ==
    IF statusCode \notin DOMAIN operation.Responses
    THEN Result(Nil, "no response defined for status code", st)
    ELSE LET response == operation.Responses[statusCode]
         IN IF response.Content # "json" \/ response.Schema = NilRef
            THEN Result(ObjV(EmptyMap), "", st)
            ELSE GenerateFromSchema(response.Schema, st, now)

\* getStatusCodeString: the status code under which the response is looked up
getStatusCodeString(method) ==
    CASE method = "POST" -> "201"
      [] method = "DELETE" -> "204"
      [] OTHER -> "200"

\* getStatusCode with DELETE answered 204, as getStatusCodeString has it
getStatusCode_NoContent(method) ==
    CASE method = "POST" -> 201
      [] method = "DELETE" -> 204
      [] OTHER -> 200

\* getStatusCode: the status code written to the client
getStatusCode(method) ==
    CASE method = "POST" -> 201
      [] method = "DELETE" -> 200
      [] OTHER -> 200

\* the static fixture without its DELETE case
Fallback_NoDelete(endpoint, now) ==
    LET id0 == StrV("550e8400-e29b-41d4-a716-446655440000")
    IN CASE endpoint.Method = "GET" /\ ContainsBrace(endpoint.Path) ->
              ObjV([id |-> id0, name |-> StrV("Mock Resource"),
                    createdAt |-> StrV(FormatRFC3339(now))])
         [] endpoint.Method = "POST" ->
              ObjV([id |-> id0, name |-> StrV("New Mock Resource"),
                    createdAt |-> StrV(FormatRFC3339(now)),
                    message |-> StrV("Resource created successfully")])
         [] OTHER -> ObjV(EmptyMap)

\* the static fixture of generateMockResponse
Fallback(endpoint, now) ==
    LET id0 == StrV("550e8400-e29b-41d4-a716-446655440000")
        id1 == StrV("550e8400-e29b-41d4-a716-446655440001")
    IN CASE endpoint.Method = "GET" /\ ContainsBrace(endpoint.Path) ->
              ObjV([id |-> id0, name |-> StrV("Mock Resource"),
                    createdAt |-> StrV(FormatRFC3339(now))])
         [] endpoint.Method = "GET" /\ ~ContainsBrace(endpoint.Path) ->
              ObjV([data |-> ArrV(<<
                        ObjV([id |-> id0, name |-> StrV("Mock Resource 1"),
                              createdAt |-> StrV(FormatRFC3339(now))]),
                        ObjV([id |-> id1, name |-> StrV("Mock Resource 2"),
                              createdAt |-> StrV(FormatRFC3339(now - 24))])>>),
                    total |-> IntV(2)])
         [] endpoint.Method = "POST" ->
              ObjV([id |-> id0, name |-> StrV("New Mock Resource"),
                    createdAt |-> StrV(FormatRFC3339(now)),
                    message |-> StrV("Resource created successfully")])
         [] endpoint.Method \in {"PUT", "PATCH"} ->
              ObjV([id |-> id0, name |-> StrV("Updated Mock Resource"),
                    updatedAt |-> StrV(FormatRFC3339(now)),
                    message |-> StrV("Resource updated successfully")])
         [] endpoint.Method = "DELETE" ->
              ObjV([message |-> StrV("Resource deleted successfully")])
         [] OTHER -> ObjV(EmptyMap)

\* the operation generateMockResponse finds for the endpoint, if any
HasOperation(sch, endpoint) ==
    /\ sch.Raw = "openapi3.T"
    /\ endpoint.Path \in DOMAIN Doc
    /\ endpoint.Method \in DOMAIN Doc[endpoint.Path]

\* generateMockResponse calls into GenerateFromSchema on the Server's Generator
EntersGenerator(sch, endpoint) ==
    /\ HasOperation(sch, endpoint)
    /\ LET operation == Doc[endpoint.Path][endpoint.Method]
           statusCode == getStatusCodeString(endpoint.Method)
       IN /\ statusCode \in DOMAIN operation.Responses
          /\ operation.Responses[statusCode].Content = "json"
          /\ operation.Responses[statusCode].Schema # NilRef

\* generateMockResponse once GenerateResponse has returned r: the fixture
\* on an error, the envelope around an object on a collection GET, else r
fromResponse(endpoint, statusCode, r, now) ==
    IF r.err # ""
    THEN [body |-> Fallback(endpoint, now), from |-> "fallback",
          lookup |-> statusCode, st |-> r.st]
    ELSE IF ~ContainsBrace(endpoint.Path) /\ endpoint.Method = "GET" /\ r.val.k = "obj"
    THEN [body |-> ObjV([data |-> ArrV(<<r.val, r.val>>), total |-> IntV(2)]),
          from |-> "schema", lookup |-> statusCode, st |-> r.st]
    ELSE [body |-> r.val, from |-> "schema", lookup |-> statusCode, st |-> r.st]

\* generateMockResponse: body, where it came from (from), the status code
\* used for the lookup (lookup) and the generator state left behind
generateMockResponse(sch, endpoint, st, now) ==
    IF ~HasOperation(sch, endpoint)
    THEN [body |-> Fallback(endpoint, now), from |-> "fallback", lookup |-> "", st |-> st]
    ELSE fromResponse(endpoint, getStatusCodeString(endpoint.Method),
                      GenerateResponse(Doc[endpoint.Path][endpoint.Method],
                                       getStatusCodeString(endpoint.Method), st, now),
                      now)

\* the loop of handlePath: the first endpoint whose method matches
RECURSIVE matchEndpoint(_, _, _)
matchEndpoint(endpoints, method, i) ==
    IF i > Len(endpoints) THEN NoEndpoint
    ELSE IF EqualFold(method, endpoints[i].Method) THEN endpoints[i]
    ELSE matchEndpoint(endpoints, method, i + 1)

Request(path, method) == [path |-> path, method |-> method]

NoRequest == Request("", "")

NoExchange ==
    [req |-> NoRequest, endpoint |-> NoEndpoint, status |-> 0, headers |-> {},
     body |-> Nil, wrote |-> FALSE, from |-> "", lookup |-> ""]

\* net/http sends the bytes written after WriteHeader(status) unless the
\* status forbids a body
BodyAllowed(status) == status >= 200 /\ status \notin {204, 304}

\* http.Error(w, "Method not allowed", http.StatusMethodNotAllowed)
MethodNotAllowed(r) ==
    [req |-> r, endpoint |-> NoEndpoint, status |-> 405,
     headers |-> {<<"Content-Type", "text/plain; charset=utf-8">>,
                  <<"X-Content-Type-Options", "nosniff">>},
     body |-> StrV("Method not allowed\n"), wrote |-> BodyAllowed(405),
     from |-> "", lookup |-> ""]

\* the tail of handlePath: headers, status code, encoded body
WriteResponse(r, endpoint, m) ==
    [req |-> r, endpoint |-> endpoint, status |-> getStatusCode(endpoint.Method),
     headers |-> {<<"Content-Type", "application/json">>, <<"X-Mocktail-Server", "true">>},
     body |-> m.body, wrote |-> BodyAllowed(getStatusCode(endpoint.Method)),
     from |-> m.from, lookup |-> m.lookup]

\* handlePath, up to its return or to the call into the shared Generator;
\* handlers are numbered in the order their requests arrive
HandleRequest(h, path, method) ==
    /\ pc[h] = "idle"
    /\ \A g \in Handlers : g < h => pc[g] # "idle"
    /\ LET matched == matchEndpoint(schema.Paths[path], method, 1)
       IN IF matched = NoEndpoint
          THEN /\ sent' = MethodNotAllowed(Request(path, method))
               /\ pc' = [pc EXCEPT ![h] = "done"]
               /\ UNCHANGED <<req, ep, snap>>
          ELSE IF EntersGenerator(schema, matched)
          THEN /\ pc' = [pc EXCEPT ![h] = "generate"]
               /\ req' = [req EXCEPT ![h] = Request(path, method)]
               /\ ep' = [ep EXCEPT ![h] = matched]
               /\ snap' = [snap EXCEPT ![h] = generator]
               /\ UNCHANGED sent
          ELSE /\ sent' = WriteResponse(Request(path, method), matched,
                              generateMockResponse(schema, matched,
                                  [rng |-> generator, ord |-> 0, depth |-> 0], Now(clock)))
               /\ pc' = [pc EXCEPT ![h] = "done"]
               /\ UNCHANGED <<req, ep, snap>>
    /\ UNCHANGED <<schema, generator, clock, genVars, cmdVars, lifeVars>>

\* the Generator call returns and handlePath writes the response.  The
\* Generator is shared and unlocked: when another handler advanced the
\* source meanwhile, this one worked from the source as it read it on
\* entry or from the source as it is now.
GenerateReturn(h, ord) ==
    /\ pc[h] = "generate"
    /\ \E start \in {snap[h], generator} :
          LET m == generateMockResponse(schema, ep[h],
                       [rng |-> start, ord |-> ord, depth |-> 0], Now(clock))
          IN /\ generator' = m.st.rng
             /\ sent' = WriteResponse(req[h], ep[h], m)
    /\ pc' = [pc EXCEPT ![h] = "done"]
    /\ req' = [req EXCEPT ![h] = NoRequest]
    /\ ep' = [ep EXCEPT ![h] = NoEndpoint]
    /\ snap' = [snap EXCEPT ![h] = 0]
    /\ UNCHANGED <<schema, clock, genVars, cmdVars, lifeVars>>

----------------------------------------------------------------------------
(* The generate command (newGenerateCmd): one run of RunE per process      *)

Runs == 1..2

\* a payload printed to standard output: the header's kind and number, the
\* JSON document, and where it came from: the schema node it was generated
\* from and the seed of the Generator that produced it
Payload(kind, n, node, seed, val) ==
    [kind |-> kind, n |-> n, node |-> node, seed |-> seed, val |-> val]

NoRun ==
    [pc |-> "idle", path |-> "", method |-> "", flag |-> 0, count |-> 0,
     seed |-> 0, i |-> 0, out |-> <<>>, err |-> ""]

\* the loop that looks the --method flag up among the endpoints of the path
RECURSIVE findEndpoint(_, _, _)
findEndpoint(endpoints, method, i) ==
    IF i > Len(endpoints) THEN NoEndpoint
    ELSE IF endpoints[i].Method = method THEN endpoints[i]
    ELSE findEndpoint(endpoints, method, i + 1)

validate_AnyMethod(sch, path, method) ==
    IF path = "" THEN "--path flag is required"
    ELSE IF method = "" THEN "--method flag is required"
    ELSE IF path \notin DOMAIN sch.Paths THEN "path not found in schema"
    ELSE IF sch.Raw # "openapi3.T" THEN "invalid schema format"
    ELSE ""

\* the checks of RunE before the payload loop: the error returned, or ""
validate(sch, path, method) ==
    IF path = "" THEN "--path flag is required"
    ELSE IF method = "" THEN "--method flag is required"
    ELSE IF path \notin DOMAIN sch.Paths THEN "path not found in schema"
    ELSE IF findEndpoint(sch.Paths[path], method, 1) = NoEndpoint
         THEN "method not found for path"
    ELSE IF sch.Raw # "openapi3.T" THEN "invalid schema format"
    ELSE ""

\* the seed the run works with: the current time when the flag is 0
effectiveSeed(flag, now) == IF flag = 0 THEN now ELSE flag

\* the request body schema generated from, if the loop generates one
requestSchema(operation, method) ==
    IF method \in {"POST", "PUT", "PATCH"} /\ operation.RequestBody.Content = "json"
    THEN operation.RequestBody.Schema
    ELSE NilRef

\* the response schema of the loop: the 200 response if the operation
\* declares one, else the 201 response; its application/json schema
responseSchema(operation) ==
    LET pick(code) == IF operation.Responses[code].Content = "json"
                      THEN operation.Responses[code].Schema ELSE NilRef
    IN IF "200" \in DOMAIN operation.Responses THEN pick("200")
       ELSE IF "201" \in DOMAIN operation.Responses THEN pick("201")
       ELSE NilRef

\* the generator state the response body is generated from: the fresh
\* Generator, advanced by the request body if one was generated
afterRequest(reqId, gen, request, ord2) ==
    [(IF reqId = NilRef THEN gen ELSE request.st) EXCEPT !.ord = ord2]

\* the payload loop body that does not look at the errors GenerateFromSchema
\* returned: it prints whatever came back and goes on
printPayloads_Unchecked(reqId, respId, n, seed, request, response) ==
    [out |-> (IF reqId = NilRef THEN <<>>
              ELSE <<Payload("Request Body", n, reqId, seed, request.val)>>)
             \o (IF respId = NilRef THEN <<>>
                 ELSE <<Payload("Response Body", n, respId, seed, response.val)>>),
     err |-> ""]

\* the payload loop body given what the two GenerateFromSchema calls
\* return: the payloads printed and the error the iteration ends with
printPayloads(reqId, respId, n, seed, request, response) ==
    IF reqId # NilRef /\ request.err # ""
    THEN [out |-> <<>>,
          err |-> IF Crashed(request.err) THEN request.err
                  ELSE "failed to generate request body"]
    ELSE IF respId = NilRef
    THEN [out |-> IF reqId = NilRef THEN <<>>
                  ELSE <<Payload("Request Body", n, reqId, seed, request.val)>>,
          err |-> ""]
    ELSE IF response.err # ""
    THEN [out |-> IF reqId = NilRef THEN <<>>
                  ELSE <<Payload("Request Body", n, reqId, seed, request.val)>>,
          err |-> IF Crashed(response.err) THEN response.err
                  ELSE "failed to generate response body"]
    ELSE [out |-> (IF reqId = NilRef THEN <<>>
                   ELSE <<Payload("Request Body", n, reqId, seed, request.val)>>)
                  \o <<Payload("Response Body", n, respId, seed, response.val)>>,
          err |-> ""]

\* the response half of an iteration, the request body being generated
generateResponseBody(reqId, respId, n, seed, gen, request, ord2, now) ==
    printPayloads(reqId, respId, n, seed, request,
                  GenerateFromSchema(respId, afterRequest(reqId, gen, request, ord2), now))

\* the request half of an iteration on the Generator gen
generateRequestBody(reqId, respId, n, seed, gen, ord2, now) ==
    generateResponseBody(reqId, respId, n, seed, gen,
                         GenerateFromSchema(reqId, gen, now), ord2, now)

\* one iteration of the payload loop on a fresh Generator seeded seed
iteration(operation, method, n, seed, ord1, ord2, now) ==
    generateRequestBody(requestSchema(operation, method), responseSchema(operation),
                        n, seed, [rng |-> NewGenerator(seed), ord |-> ord1, depth |-> 0],
                        ord2, now)

\* the loop variables after an iteration that ended as step
advance(run, step) ==
    [run EXCEPT !.out = @ \o step.out,
                !.err = step.err,
                !.i = IF step.err = "" THEN @ + 1 ELSE @,
                !.pc = IF Crashed(step.err) THEN "crashed"
                       ELSE IF step.err # "" THEN "failed"
                       ELSE IF run.i + 1 < run.count THEN "loop"
                       ELSE "done"]

\* RunE up to the payload loop
RunStart(r, path, method, flag, count) ==
    /\ runs[r].pc = "idle"
    /\ LET err == validate(schema, path, method)
           run == [NoRun EXCEPT !.path = path, !.method = method,
                                !.flag = flag, !.count = count]
       IN runs' = [runs EXCEPT ![r] =
             IF err # "" THEN [run EXCEPT !.pc = "failed", !.err = err]
             ELSE [run EXCEPT !.seed = effectiveSeed(flag, Now(clock)),
                              !.pc = IF count > 0 THEN "loop" ELSE "done"]]
    /\ UNCHANGED <<clock, genVars, srvVars, lifeVars>>

\* the first run is started with any flags
CmdStart(path, method, flag, count) ==
    RunStart(1, path, method, flag, count)

\* the second run is started with the flags of the first, after it ended
CmdRepeat ==
    /\ runs[1].pc \in {"done", "failed", "crashed"}
    /\ RunStart(2, runs[1].path, runs[1].method, runs[1].flag, runs[1].count)

\* one iteration of the payload loop of run r
CmdIterate(r, ord1, ord2) ==
    /\ runs[r].pc = "loop"
    /\ runs' = [runs EXCEPT ![r] =
          advance(runs[r],
                  iteration(Doc[runs[r].path][runs[r].method], runs[r].method,
                            runs[r].i + 1, runs[r].seed + runs[r].i,
                            ord1, ord2, Now(clock)))]
    /\ UNCHANGED <<clock, genVars, srvVars, lifeVars>>

----------------------------------------------------------------------------
(* The life of the server: Start on one thread, Stop on another            *)

\* s.server: whether Start has stored it, and the http.Server's own state
NoServer == [made |-> FALSE, inShutdown |-> FALSE, listening |-> FALSE]

\* the server as Spec takes it: started and listening
Running == [made |-> TRUE, inShutdown |-> FALSE, listening |-> TRUE]

NotStopped == [pc |-> "idle", err |-> ""]

\* every path a schema may declare, in lexicographic order
PathNames == <<"/data", "/health", "/items", "/items/{id}", "/pets">>

\* the document of a schema that itself declares the path /health
HealthDoc == Doc @@ ("/health" :> ("GET" :> Operation("200" :> JSONContent("widget"))))

\* the patterns Start registers, in order: the schema's paths, then /health
patterns(sch) ==
    SelectSeq(PathNames, LAMBDA path : path \in DOMAIN sch.Paths) \o <<"/health">>

\* mux.HandleFunc for patterns[i..]: ServeMux panics on a pattern that is
\* registered already
RECURSIVE register(_, _, _)
register(registered, pats, i) ==
    IF i > Len(pats) THEN [mux |-> registered, panic |-> FALSE]
    ELSE IF \E j \in 1..Len(registered) : registered[j] = pats[i]
         THEN [mux |-> registered, panic |-> TRUE]
    ELSE register(Append(registered, pats[i]), pats, i + 1)

healthExchange_ByMethod(r) ==
    [req |-> r, endpoint |-> NoEndpoint, status |-> getStatusCode(r.method),
     headers |-> {<<"Content-Type", "application/json">>},
     body |-> ObjV([status |-> StrV("ok"), server |-> StrV("mocktail")]),
     wrote |-> BodyAllowed(getStatusCode(r.method)), from |-> "health", lookup |-> ""]

\* the response of the health check handler
healthExchange(r) ==
    [req |-> r, endpoint |-> NoEndpoint, status |-> 200,
     headers |-> {<<"Content-Type", "application/json">>},
     body |-> ObjV([status |-> StrV("ok"), server |-> StrV("mocktail")]),
     wrote |-> BodyAllowed(200), from |-> "health", lookup |-> ""]

\* Start up to the assignment of s.server: the mux is built and filled
StartCreate ==
    /\ starting = "init"
    /\ LET r == register(<<>>, patterns(schema), 1)
       IN /\ mux' = r.mux
          /\ IF r.panic
             THEN starting' = "panicked" /\ UNCHANGED server
             ELSE starting' = "created" /\ server' = [server EXCEPT !.made = TRUE]
    /\ UNCHANGED <<stopping, clock, genVars, srvVars, cmdVars>>

\* ListenAndServe is entered: it returns ErrServerClosed at once when
\* Shutdown has been called, fails when the port cannot be bound, and
\* listens otherwise
StartListen ==
    /\ starting = "created"
    /\ IF server.inShutdown
       THEN starting' = "returned" /\ UNCHANGED server
       ELSE \/ starting' = "listening" /\ server' = [server EXCEPT !.listening = TRUE]
            \/ starting' = "failed" /\ UNCHANGED server
    /\ UNCHANGED <<mux, stopping, clock, genVars, srvVars, cmdVars>>

\* ListenAndServe returns ErrServerClosed after Shutdown closed the
\* listener, and Start returns nil
StartReturn ==
    /\ starting = "listening"
    /\ ~server.listening
    /\ starting' = "returned"
    /\ UNCHANGED <<server, mux, stopping, clock, genVars, srvVars, cmdVars>>

\* Stop up to its return or to the call of Shutdown.  s.server is read
\* without synchronisation with the write in Start: Stop sees the server
\* Start stored, or still nil.  A panic in Start has ended the process
Stop ==
    /\ stopping.pc = "idle"
    /\ starting # "panicked"
    /\ \E seen \in {server.made, FALSE} :
          IF ~seen
          THEN stopping' = [pc |-> "returned", err |-> ""] /\ UNCHANGED server
          ELSE /\ stopping' = [pc |-> "shutdown", err |-> ""]
               /\ server' = [server EXCEPT !.inShutdown = TRUE, !.listening = FALSE]
    /\ UNCHANGED <<mux, starting, clock, genVars, srvVars, cmdVars>>

\* Shutdown returns: nil once no request is in flight, ctx.Err() when ctx
\* expires before that
StopReturn ==
    /\ stopping.pc = "shutdown"
    /\ stopping' = [pc |-> "returned",
                err |-> IF \E h \in Handlers : pc[h] = "generate"
                        THEN "context deadline exceeded" ELSE ""]
    /\ UNCHANGED <<server, mux, starting, clock, genVars, srvVars, cmdVars>>

\* a request to a path of the schema is accepted and dispatched to handlePath
Serve(h, path, method) ==
    /\ server.listening
    /\ HandleRequest(h, path, method)

Health_Registers(h, method) ==
    /\ server.listening
    /\ pc[h] = "idle"
    /\ \A g \in Handlers : g < h => pc[g] # "idle"
    /\ sent' = healthExchange(Request("/health", method))
    /\ pc' = [pc EXCEPT ![h] = "done"]
    /\ schema' = [schema EXCEPT !.Paths = @ @@ ("/health" :> <<Endpoint(method, "/health")>>)]
    /\ UNCHANGED <<generator, req, ep, snap, clock, genVars, cmdVars, lifeVars>>

\* a request to /health is accepted and answered by the health check handler
Health(h, method) ==
    /\ server.listening
    /\ pc[h] = "idle"
    /\ \A g \in Handlers : g < h => pc[g] # "idle"
    /\ sent' = healthExchange(Request("/health", method))
    /\ pc' = [pc EXCEPT ![h] = "done"]
    /\ UNCHANGED <<schema, generator, req, ep, snap, clock, genVars, cmdVars, lifeVars>>

----------------------------------------------------------------------------
(* Specifications *)

\* NewServer over a parsed schema, or over a schema without a document;
\* the Generator is seeded from the time of construction
InitServer ==
    /\ schema \in {Parse(Doc), [Parse(Doc) EXCEPT !.Raw = "none"]}
    /\ generator = NewGenerator(Now(clock))
    /\ pc = [h \in Handlers |-> "idle"]
    /\ req = [h \in Handlers |-> NoRequest]
    /\ ep = [h \in Handlers |-> NoEndpoint]
    /\ snap = [h \in Handlers |-> 0]
    /\ sent = NoExchange

Init ==
    /\ clock \in 0..MaxClock
    /\ InitServer
    /\ gens = [i \in Generators |-> 0]
    /\ calls = [i \in Generators |-> 0]
    /\ last = [i \in Generators |-> NoCall]
    /\ runs = [r \in Runs |-> NoRun]
    /\ server = Running
    /\ mux = patterns(schema)
    /\ starting = "listening"
    /\ stopping = NotStopped

Next ==
    \/ \E h \in Handlers, path \in DOMAIN Doc, method \in RequestMethods :
          HandleRequest(h, path, method)
    \/ \E h \in Handlers, ord \in Ords : GenerateReturn(h, ord)
    \/ Tick

Spec == Init /\ [][Next]_vars

InitGen ==
    /\ \E seed \in Seeds : gens = [i \in Generators |-> NewGenerator(seed)]
    /\ calls = [i \in Generators |-> 0]
    /\ last = [i \in Generators |-> NoCall]
    /\ clock = 0
    /\ schema = Parse(Doc)
    /\ generator = 0
    /\ pc = [h \in Handlers |-> "idle"]
    /\ req = [h \in Handlers |-> NoRequest]
    /\ ep = [h \in Handlers |-> NoEndpoint]
    /\ snap = [h \in Handlers |-> 0]
    /\ sent = NoExchange
    /\ runs = [r \in Runs |-> NoRun]
    /\ server = NoServer
    /\ mux = <<>>
    /\ starting = "init"
    /\ stopping = NotStopped

NextGen ==
    \/ \E id \in SchemaIds \cup {NilRef}, ord \in Ords : GenCall1(id, ord)
    \/ \E ord \in Ords : GenCall2(ord)
    \/ Tick

SpecGen == InitGen /\ [][NextGen]_vars

\* the flags a caller may pass
FlagPaths == DOMAIN Doc \cup {"", "/none"}
FlagMethods == {"GET", "POST", "PUT", "PATCH", "DELETE", ""}

InitCmd ==
    /\ runs = [r \in Runs |-> NoRun]
    /\ clock = 0
    /\ schema = Parse(Doc)
    /\ gens = [i \in Generators |-> 0]
    /\ calls = [i \in Generators |-> 0]
    /\ last = [i \in Generators |-> NoCall]
    /\ generator = 0
    /\ pc = [h \in Handlers |-> "idle"]
    /\ req = [h \in Handlers |-> NoRequest]
    /\ ep = [h \in Handlers |-> NoEndpoint]
    /\ snap = [h \in Handlers |-> 0]
    /\ sent = NoExchange
    /\ server = NoServer
    /\ mux = <<>>
    /\ starting = "init"
    /\ stopping = NotStopped

NextCmd ==
    \/ \E path \in FlagPaths, method \in FlagMethods, flag \in Seeds, count \in 0..MaxCount :
          CmdStart(path, method, flag, count)
    \/ CmdRepeat
    \/ \E r \in Runs, ord1, ord2 \in Ords : CmdIterate(r, ord1, ord2)
    \/ Tick

SpecCmd == InitCmd /\ [][NextCmd]_vars

\* the requests sent to the server over its life
LifePaths == {"/items", "/items/{id}"}
LifeMethods == {"GET", "PATCH"}

\* NewServer over a parsed schema, which may itself declare /health;
\* Start and Stop are then called, each once, on threads of their own
InitLife ==
    /\ schema \in {Parse(Doc), Parse(HealthDoc)}
    /\ clock = 0
    /\ generator = NewGenerator(Now(clock))
    /\ pc = [h \in Handlers |-> "idle"]
    /\ req = [h \in Handlers |-> NoRequest]
    /\ ep = [h \in Handlers |-> NoEndpoint]
    /\ snap = [h \in Handlers |-> 0]
    /\ sent = NoExchange
    /\ server = NoServer
    /\ mux = <<>>
    /\ starting = "init"
    /\ stopping = NotStopped
    /\ gens = [i \in Generators |-> 0]
    /\ calls = [i \in Generators |-> 0]
    /\ last = [i \in Generators |-> NoCall]
    /\ runs = [r \in Runs |-> NoRun]

NextLife ==
    \/ StartCreate
    \/ StartListen
    \/ StartReturn
    \/ Stop
    \/ StopReturn
    \/ \E h \in Handlers, path \in LifePaths, method \in LifeMethods : Serve(h, path, method)
    \/ \E h \in Handlers, ord \in Ords : GenerateReturn(h, ord)
    \/ \E h \in Handlers, method \in RequestMethods : Health(h, method)

SpecLife == InitLife /\ [][NextLife]_vars

----------------------------------------------------------------------------
(* Properties of the Generator, under SpecGen *)

\* C1: two Generators built from the same seed and called in the same
\* sequence return identical values, call by call.
C1_Determinism == calls[1] = calls[2] => last[1] = last[2]

\* the bounds an Integer node declares hold of the value generated for it
RangeSound(c) ==
    IF c.node = NilRef \/ c.err # "" THEN TRUE
    ELSE LET s == Schemas[c.node]
         IN s.Type = "integer" =>
              /\ s.Min.set => s.Min.h <= 2 * c.val.v
              /\ s.Max.set => 2 * c.val.v <= s.Max.h
              /\ (~s.Min.set /\ ~s.Max.set) => (0 <= c.val.v /\ c.val.v <= 100)

\* C10: every value generated for an Integer node satisfies each bound the
\* node declares, and lies in [0, 100] when the node declares none.
C10_RangeSoundness == \A i \in Generators : calls[i] > 0 => RangeSound(last[i])

\* the call was made on a String node that declares a non-empty enumeration
OnEnumNode(c) ==
    /\ c.node # NilRef
    /\ Schemas[c.node].Type = "string"
    /\ Len(Schemas[c.node].Enum) > 0

\* C11: every value generated for a String node with a non-empty
\* enumeration is a member of that enumeration, whatever the list holds.
C11_EnumClosure ==
    \A i \in Generators :
        (calls[i] > 0 /\ OnEnumNode(last[i])) =>
            \E j \in 1..Len(Schemas[last[i].node].Enum) :
                Schemas[last[i].node].Enum[j] = last[i].val

\* the call was made on an Array node with an item node and returned a value
OnArrayNode(c) ==
    /\ c.node # NilRef
    /\ Schemas[c.node].Type = "array"
    /\ Schemas[c.node].Items # NilRef
    /\ c.err = ""

\* C12: the length generated for an Array node with an item node lies in
\* [minItems, maxItems] when the node declares both, and in [2, 5] otherwise.
C12_ArrayLengthBounds ==
    \A i \in Generators :
        (calls[i] > 0 /\ OnArrayNode(last[i])) =>
            LET s == Schemas[last[i].node]
                n == Len(last[i].val.v)
            IN IF s.MinItems > 0 /\ s.MaxItems.set
               THEN s.MinItems <= n /\ n <= s.MaxItems.h
               ELSE 2 <= n /\ n <= 5

\* C13: generateObject visits the properties of a node in one fixed order
\* on every call: two calls on the same node visit them in the same order.
C13_FixedPropertyOrder ==
    \A i, j \in Generators :
        (calls[i] > 0 /\ calls[j] > 0 /\ last[i].node = last[j].node) =>
            last[i].order = last[j].order

\* the nodes a node refers to: its item node and its property nodes
Children(id) ==
    LET s == Schemas[id]
    IN (IF s.Items = NilRef THEN {} ELSE {s.Items})
       \cup ({s.Properties[name] : name \in DOMAIN s.Properties} \ {NilRef})

RECURSIVE Closure(_)
Closure(S) ==
    LET T == S \cup UNION {Children(x) : x \in S}
    IN IF T = S THEN S ELSE Closure(T)

\* the type tags GenerateFromSchema dispatches on
SupportedTypes == {"string", "integer", "number", "boolean", "array", "object"}

\* a finite tree whose nodes all carry a supported type tag or none
WellFormed(id) ==
    /\ \A x \in Closure({id}) : Schemas[x].Type \in SupportedTypes \cup {""}
    /\ \A x \in Closure({id}) : x \notin Closure(Children(x))

\* C14: GenerateFromSchema returns an error for a nil node and for a node
\* whose type tag is not supported, and a value and no error for every
\* other well-formed node (a node without type tag being an object).
C14_ErrorsOnlyOnMalformed ==
    \A i \in Generators : calls[i] > 0 =>
        LET c == last[i]
        IN CASE c.node = NilRef -> c.err = "schema is nil" /\ c.val = Nil
             [] Schemas[c.node].Type \notin SupportedTypes \cup {""} ->
                  c.err = "unsupported schema type" /\ c.val = Nil
             [] WellFormed(c.node) ->
                  /\ c.err = ""
                  /\ c.val # Nil
                  /\ Schemas[c.node].Type = "" => c.val.k = "obj"
             [] OTHER -> TRUE

\* C15: generation returns on every node: no call exhausts the stack, a
\* node that reaches itself is refused with an error of its own.
C15_BoundedRecursion ==
    \A i \in Generators : calls[i] > 0 => last[i].err # "stack overflow"

----------------------------------------------------------------------------
(* Properties of the mock server, under Spec *)

Matched == sent.endpoint # NoEndpoint

\* C2: no two request handlers are inside the Server's Generator at once.
C2_GeneratorAccessSerialized ==
    \A g, h \in Handlers : (pc[g] = "generate" /\ pc[h] = "generate") => g = h

IsEnvelope(b) ==
    /\ b.k = "obj"
    /\ {"data", "total"} \subseteq DOMAIN b.v
    /\ b.v.data.k = "arr"
    /\ Len(b.v.data.v) = 2
    /\ b.v.total = IntV(2)

IsSingleObject(b) ==
    /\ b.k = "obj"
    /\ "data" \notin DOMAIN b.v
    /\ "total" \notin DOMAIN b.v

\* C3: a matched GET is answered with the {data, total} envelope of two
\* items on a path without placeholder and with a single object on a path
\* with one, from the schema as from the fallback.
C3_ShapeClassification ==
    (Matched /\ sent.endpoint.Method = "GET") =>
        IF ContainsBrace(sent.endpoint.Path)
        THEN IsSingleObject(sent.body)
        ELSE IsEnvelope(sent.body)

\* C4: the two data items of a schema-driven collection response are
\* generated separately: their uuid ids differ.
C4_DistinctItems ==
    (Matched /\ sent.from = "schema" /\ sent.endpoint.Method = "GET"
       /\ IsEnvelope(sent.body) /\ "id" \in DOMAIN sent.body.v.data.v[1].v) =>
        sent.body.v.data.v[1].v.id # sent.body.v.data.v[2].v.id

\* C5: a matched request is answered 201 when the operation is a POST and
\* 200 otherwise, whether the body is generated or the fallback.
C5_StatusMapping ==
    Matched => sent.status = (IF sent.endpoint.Method = "POST" THEN 201 ELSE 200)

C5_Witness ==
    /\ Matched
    /\ sent.req.method = "delete"
    /\ sent.endpoint.Method = "DELETE"
    /\ sent.from = "fallback"
    /\ sent.status = 200

\* C6: the status code under which the declared response is looked up is
\* the status code sent to the client.
C6_LookupIsSentStatus ==
    (Matched /\ sent.lookup # "") => sent.lookup = ToString(sent.status)

\* the methods the schema declares for a path
AllowedMethods(sch, path) ==
    {sch.Paths[path][i].Method : i \in 1..Len(sch.Paths[path])}

\* the methods a response names in Allow headers
CarriedMethods(x) == {m \in RequestMethods : <<"Allow", m>> \in x.headers}

\* C7: a request whose method matches no operation of its path is answered
\* 405, the response carries the methods the path allows, and no body is
\* generated for it.
C7_MethodNotAllowed ==
    (sent.req # NoRequest /\ ~Matched) =>
        /\ sent.status = 405
        /\ sent.from = ""
        /\ CarriedMethods(sent) = AllowedMethods(schema, sent.req.path)

\* the body has the shape of the static fixture for the endpoint
IsFixture(e, b) ==
    LET item(x) == x.k = "obj" /\ DOMAIN x.v = {"id", "name", "createdAt"}
    IN /\ b.k = "obj"
       /\ CASE e.Method = "GET" /\ ContainsBrace(e.Path) -> item(b)
            [] e.Method = "GET" /\ ~ContainsBrace(e.Path) ->
                 /\ DOMAIN b.v = {"data", "total"}
                 /\ b.v.data.k = "arr"
                 /\ Len(b.v.data.v) = 2
                 /\ \A i \in 1..2 : item(b.v.data.v[i])
                 /\ b.v.total = IntV(2)
            [] e.Method = "POST" ->
                 /\ {"id", "message"} \subseteq DOMAIN b.v
                 /\ b.v.message = StrV("Resource created successfully")
            [] e.Method \in {"PUT", "PATCH"} ->
                 /\ {"updatedAt", "message"} \subseteq DOMAIN b.v
                 /\ b.v.message = StrV("Resource updated successfully")
            [] e.Method = "DELETE" ->
                 b.v = [message |-> StrV("Resource deleted successfully")]
            [] OTHER -> FALSE

\* the method's conventional status code
Conventional(method) == IF method = "POST" THEN "201" ELSE "200"

\* the operation declares an application/json schema for the method's
\* conventional status code, and generating from it succeeds
GeneratesFromSchema(sch, e) ==
    /\ HasOperation(sch, e)
    /\ LET responses == Doc[e.Path][e.Method].Responses
           code == Conventional(e.Method)
       IN /\ code \in DOMAIN responses
          /\ responses[code].Content = "json"
          /\ responses[code].Schema # NilRef
          /\ GenerateFromSchema(responses[code].Schema,
                                [rng |-> 0, ord |-> 0, depth |-> 0], Now(0)).err = ""

\* C8: when the operation declares no JSON response schema for the
\* conventional status code, or generation fails, or there is no document,
\* the response is the static fixture, sent with the normal status code.
C8_FallbackWithoutSchema ==
    (Matched /\ ~GeneratesFromSchema(schema, sent.endpoint)) =>
        /\ IsFixture(sent.endpoint, sent.body)
        /\ sent.status = (IF sent.endpoint.Method = "POST" THEN 201 ELSE 200)

C20_MarkerHeaders ==
    sent.req # NoRequest =>
        /\ <<"X-Mocktail-Server", "true">> \in sent.headers
        /\ Matched => <<"Content-Type", "application/json">> \in sent.headers

----------------------------------------------------------------------------
(* Properties of the generate command, under SpecCmd *)

\* the run ended: RunE returned, or the process died
Ended(run) == run.pc \in {"done", "failed", "crashed"}

\* the run passed the checks before the payload loop
Looping(run) == run.pc # "idle" /\ validate(schema, run.path, run.method) = ""

\* the payloads of one kind, in the order printed
Printed(run, kind) == SelectSeq(run.out, LAMBDA p : p.kind = kind)

\* C16: a run with seed flag s and count c that completes on an operation
\* with a JSON response has printed exactly c response payloads, the i-th
\* of them by a Generator seeded s + i (i from 0).
C16_FreshSeedPerPayload ==
    \A r \in Runs :
        LET run == runs[r]
            resp == Printed(run, "Response Body")
        IN (run.pc = "done" /\ run.count > 0
              /\ responseSchema(Doc[run.path][run.method]) # NilRef) =>
               /\ Len(resp) = run.count
               /\ \A k \in 1..Len(resp) :
                     resp[k].n = k /\ resp[k].seed = run.flag + (k - 1)

\* the documents a run printed, without where they came from
Documents(run) == [k \in 1..Len(run.out) |->
                      [kind |-> run.out[k].kind, n |-> run.out[k].n, val |-> run.out[k].val]]

\* C17: two runs on the same operation with the same seed flag and count
\* print identical payload sequences.
C17_Reproducible ==
    (Ended(runs[1]) /\ Ended(runs[2])) => Documents(runs[1]) = Documents(runs[2])

\* C18: for POST, PUT and PATCH the request payload of an iteration is
\* printed before its response payload, and every response payload is
\* generated from the response declared for the method's conventional
\* status code (201 for POST, 200 otherwise).
C18_ConventionalResponse ==
    \A r \in Runs :
        LET run == runs[r]
        IN \A k \in 1..Len(run.out) :
              LET p == run.out[k]
                  responses == Doc[run.path][run.method].Responses
                  code == Conventional(run.method)
              IN /\ p.kind = "Request Body" =>
                      /\ run.method \in {"POST", "PUT", "PATCH"}
                      /\ \A j \in 1..(k - 1) : run.out[j].n < p.n
                 /\ p.kind = "Response Body" =>
                      /\ code \in DOMAIN responses
                      /\ responses[code].Content = "json"
                      /\ p.node = responses[code].Schema

\* generating from the node fails, whatever the seed and the map order
AlwaysFails(id) ==
    /\ id # NilRef
    /\ \A seed \in Seeds, ord \in Ords :
          GenerateFromSchema(id, [rng |-> NewGenerator(seed), ord |-> ord, depth |-> 0],
                             Now(0)).err # ""

----------------------------------------------------------------------------
StoppedCleanly == stopping.pc = "returned" /\ stopping.err = ""

\* C21: once Stop(ctx) has returned without error the server accepts no
\* further request and no request is in flight, in every interleaving of
\* Stop with a Start that runs on another thread
C21_StoppedServerIsClosed ==
    StoppedCleanly =>
        /\ ~server.listening
        /\ \A h \in Handlers : pc[h] # "generate"

\* a step in which a handler answers a request to /health
HealthStep ==
    \E h \in Handlers :
        pc[h] = "idle" /\ pc'[h] = "done" /\ sent'.req.path = "/health"

\* C22: every answer to /health has status 200 and the static body
\* {status: "ok", server: "mocktail"}, whatever the schema, the request
\* method and the state of the Generator, and leaves the random source of
\* the Generator where it was
C22_HealthIsStatic ==
    [][HealthStep =>
          /\ sent'.status = 200
          /\ sent'.wrote
          /\ sent'.body = ObjV([status |-> StrV("ok"), server |-> StrV("mocktail")])
          /\ generator' = generator
          /\ snap' = snap]_vars

\* /health answered a request that is not a GET, after the Generator has
\* served a response and its random source has moved
C22_Witness ==
    /\ sent.req.path = "/health"
    /\ sent.req.method \in {"POST", "DELETE"}
    /\ generator # NewGenerator(Now(0))

\* a step in which a handler accepts or answers a request
RequestStep == pc' # pc

\* C23: no step of Start, of a request (matched, rejected with 405, health
\* check) or of Stop modifies the schema, and a request changes nothing of
\* the Server but the random source of its Generator
C23_SchemaIsReadOnly ==
    [][/\ schema' = schema
       /\ RequestStep => (server' = server /\ mux' = mux)]_vars

\* the server was started, answered a generated response and a health
\* check, and was stopped
C23_Witness ==
    /\ StoppedCleanly
    /\ starting = "returned"
    /\ \A h \in Handlers : pc[h] = "done"
    /\ generator # NewGenerator(Now(0))
    /\ sent.req.path = "/health"

\* C29: for every schema, also one that declares the path /health itself,
\* Start registers each handler pattern once (one per schema path, and
\* /health) and does not abort while it registers them
C29_PatternsRegisteredOnce ==
    /\ starting # "panicked"
    /\ starting # "init" =>
          /\ Len(mux) = Cardinality(DOMAIN schema.Paths \cup {"/health"})
          /\ \A i, j \in 1..Len(mux) : mux[i] = mux[j] => i = j

\* the flags of a run fail one of the four checks
BadFlags(run) ==
    \/ run.path = ""
    \/ run.method = ""
    \/ run.path \notin DOMAIN schema.Paths
    \/ \A i \in 1..Len(schema.Paths[run.path]) :
          schema.Paths[run.path][i].Method # run.method

\* C24: a run of the generate command whose path flag is empty, whose
\* method flag is empty, whose path is not in the schema or whose path has
\* no operation with the method ends with an error and prints no payload;
\* the payload loop is entered only by runs that pass the four checks
C24_ValidatedBeforeGeneration ==
    \A r \in Runs :
        (runs[r].pc # "idle" /\ BadFlags(runs[r])) =>
            /\ runs[r].pc = "failed"
            /\ runs[r].err # ""
            /\ runs[r].out = <<>>
            /\ runs[r].i = 0

\* a run failed on a path of the schema that has no operation with the
\* method asked for, and the second run with the same flags failed as well
C24_Witness ==
    /\ runs[1].pc = "failed"
    /\ runs[1].path \in DOMAIN schema.Paths
    /\ runs[1].method # ""
    /\ runs[1].count > 0
    /\ runs[2].pc = "failed"
    /\ runs[2].out = <<>>

\* the bounds generateInteger works with: the declared ones, or 0 and 100
EffectiveMin(id) ==
    IF Schemas[id].Min.set THEN TruncInt64(Schemas[id].Min.h) ELSE 0

EffectiveMax(id) ==
    IF Schemas[id].Max.set THEN TruncInt64(Schemas[id].Max.h) ELSE 100

\* the call was made on an Integer node whose effective range is empty or
\* a single value
OnDegenerateInteger(c) ==
    /\ c.node # NilRef
    /\ Schemas[c.node].Type = "integer"
    /\ EffectiveMax(c.node) <= EffectiveMin(c.node)

OnEnumNodeWithFormat(c) ==
    /\ OnEnumNode(c)
    /\ Schemas[c.node].Format # ""

\* C26: on a String node with a non-empty enumeration the value returned
\* is the member of the enumeration at an index in [0, len), and the
\* format of the node has no part in it
C26_EnumBeforeFormat ==
    \A i \in Generators :
        (calls[i] > 0 /\ OnEnumNodeWithFormat(last[i])) =>
            /\ last[i].err = ""
            /\ \E j \in 1..Len(Schemas[last[i].node].Enum) :
                  last[i].val = Schemas[last[i].node].Enum[j]

\* Generator i made a call on an Array node that has no item node
CallOnArrayWithoutItems(i) ==
    /\ calls'[i] = calls[i] + 1
    /\ last'[i].node # NilRef
    /\ Schemas[last'[i].node].Type = "array"
    /\ Schemas[last'[i].node].Items = NilRef

\* C27: a call on an Array node without an item node returns the empty
\* sequence and no error and leaves the random source where it was,
\* whatever minItems and maxItems the node declares
C27_NoItemsGivesEmptyArray ==
    [][\A i \in Generators :
          CallOnArrayWithoutItems(i) =>
              /\ last'[i].val = ArrV(<<>>)
              /\ last'[i].err = ""
              /\ gens'[i] = gens[i]]_vars

\* both Generators were called on the Array node without items that
\* declares minItems 2 and maxItems 3, after the first had drawn for
\* another node
C27_Witness ==
    /\ \A i \in Generators : last[i].node = "arrNoItemsBounded" /\ last[i].val = ArrV(<<>>)
    /\ calls[2] = 2
    /\ \E seed \in Seeds : gens[1] # NewGenerator(seed)

\* a node below which, at any depth, a node of an unsupported type is
\* generated
HasUnsupported(id) ==
    \E x \in Closure({id}) : Schemas[x].Type \notin SupportedTypes \cup {""}

\* C28: a call on a node below which an element or a property returns an
\* error, at any depth, returns an error itself, and a call that returns an
\* error returns no value: nothing of what was generated before the failure
C28_FailurePropagates ==
    \A i \in Generators :
        (calls[i] > 0 /\ last[i].node # NilRef /\ ~Crashed(last[i].err)) =>
            /\ HasUnsupported(last[i].node) => last[i].err # ""
            /\ last[i].err # "" => last[i].val = Nil

\* the object whose property next is an array of objects with a property
\* of an unsupported type failed after its property id had been generated
C28_Witness ==
    /\ last[1].node = "report"
    /\ last[1].order = <<"id", "next">>
    /\ last[1].err = "unsupported schema type"
    /\ last[1].val = Nil
    /\ last[2].node = "files"
    /\ last[2].val = Nil

\* the call was made on an Integer node whose effective minimum is below
\* its effective maximum
OnProperInteger(c) ==
    /\ c.node # NilRef
    /\ Schemas[c.node].Type = "integer"
    /\ EffectiveMin(c.node) < EffectiveMax(c.node)

\* C30: for every pair of bounds with min < max, also one whose width
\* max - min + 1 is beyond the signed range of the machine integer, the
\* draw of generateInteger is valid and the value returned lies in
\* [min, max]
C30_WidthDoesNotOverflow ==
    \A i \in Generators :
        (calls[i] > 0 /\ OnProperInteger(last[i])) =>
            /\ last[i].err = ""
            /\ last[i].val.k = "int"
            /\ EffectiveMin(last[i].node) <= last[i].val.v
            /\ last[i].val.v <= EffectiveMax(last[i].node)

====
